---- MODULE Spec2Model ----
(***************************************************************************)
(* A model of the curate digest pipelines:                                 *)
(*   - the paper pipeline (PaperIdRetriever, PaperSummarizer),             *)
(*   - the Reddit pipeline (RedditExplorer),                               *)
(*   - the entry points (the two lambda_handler functions and run_all).    *)
(*                                                                         *)
(* Text is modelled by what the string operations do.  An identifier, a    *)
(* markdown part and a file's content are sequences of tokens, "NL" being  *)
(* the line feed.  A line of a fetched document is a run-length encoded    *)
(* string: a sequence of runs [c |-> token, n |-> repetitions].            *)
(*                                                                         *)
(* Four specifications share the module:                                   *)
(*   Spec         the entry points, the runs and the files, day after day  *)
(*   SpecFanout   one run from the submission of the work items on         *)
(*   SpecDedupe   _remove_duplicates applied to arbitrary lists            *)
(*   SpecExtract  the line part of _extract_body_text on arbitrary lines   *)
(***************************************************************************)
EXTENDS Integers, Sequences, FiniteSets, TLC

VARIABLES
    \* ---- the clock and the output directory (flat files keyed by date)
    today,            \* date.today(), as a day number
    idFile,           \* paper_summarizer/arxiv_ids-{date}.txt : day -> content
    digestFile,       \* paper_summarizer/{date}.md            : day -> content
    redditFile,       \* reddit_explorer/{date}.md             : day -> content
    \* ---- the entry point being served
    entry,            \* "none", "paper_lambda", "reddit_lambda", "run_all"
    pc,               \* position inside the invocation
    result,           \* what the last invocation handed to its host
    runs,             \* invocations started so far
    \* ---- PaperSummarizer
    old_arxiv_ids,    \* self._old_arxiv_ids
    new_arxiv_ids,    \* new_arxiv_ids of __call__
    fut,              \* the futures of executor.map, one per identifier
    markdowns,        \* the results list(...) has collected so far
    \* ---- what happened during the invocation (history)
    hist,
    \* ---- SpecDedupe
    dd_new, dd_old, dd_out, dd_pc,
    \* ---- SpecExtract
    lines, start_index, filtered_lines, ex_pc

fileVars == <<today, idFile, digestFile, redditFile>>
entryVars == <<entry, pc, result, runs>>
paperVars == <<old_arxiv_ids, new_arxiv_ids, fut, markdowns>>
pipeVars == <<fileVars, entryVars, paperVars, hist>>
ddVars == <<dd_new, dd_old, dd_out, dd_pc>>
exVars == <<lines, start_index, filtered_lines, ex_pc>>
vars == <<pipeVars, ddVars, exVars>>

(***************************************************************************)
(* Bounds of the model.                                                    *)
(***************************************************************************)
MaxDay == 8
MaxRuns == 2
MaxLen == 3
MaxLines == 3
MaxItems == 3

(***************************************************************************)
(* Sequences and sets.                                                     *)
(***************************************************************************)
ToSet(s) == {s[i] : i \in DOMAIN s}

NoDuplicates(s) == \A i, j \in DOMAIN s : i # j => s[i] # s[j]

BSeq(S, n) == UNION {[1..k -> S] : k \in 0..n}

\* list(a_set): the elements of the set, each once, in an order the
\* language does not fix.
ListsOfSet(S) == {s \in [1..Cardinality(S) -> S] : ToSet(s) = S}

(***************************************************************************)
(* str.join and str.splitlines on token strings.                           *)
(***************************************************************************)
NL == "NL"

RECURSIVE Join(_, _)
Join(parts, sep) ==
    IF parts = <<>> THEN <<>>
    ELSE IF Len(parts) = 1 THEN parts[1]
    ELSE parts[1] \o sep \o Join(Tail(parts), sep)

\* str.splitlines(): the text is cut at every line feed; a final line feed
\* ends the last line and opens no further, empty, line.
RECURSIVE SplitLinesFrom(_, _)
SplitLinesFrom(text, cur) ==
    IF text = <<>> THEN (IF cur = <<>> THEN <<>> ELSE <<cur>>)
    ELSE IF Head(text) = NL THEN <<cur>> \o SplitLinesFrom(Tail(text), <<>>)
    ELSE SplitLinesFrom(Tail(text), Append(cur, Head(text)))

SplitLines(text) == SplitLinesFrom(text, <<>>)

(***************************************************************************)
(* PaperSummarizer._remove_duplicates                                      *)
(***************************************************************************)
\* A filter of the list in place of the set difference.
remove_duplicates_by_filter(new_ids, old_ids) ==
    {SelectSeq(new_ids, LAMBDA x : x \notin ToSet(old_ids))}

\* list(set(new_arxiv_ids) - set(self._old_arxiv_ids)): every list the call
\* may return.
remove_duplicates(new_ids, old_ids) ==
    ListsOfSet(ToSet(new_ids) \ ToSet(old_ids))

(***************************************************************************)
(* Identifiers.  Config.arxiv_id_regex is \d{4}\.\d{5}; "A" and "B" stand  *)
(* for two strings of that shape.  The listing scraper accepts an href     *)
(* with re.match(rf"^/papers/{regex}$", href), and "$" also matches just   *)
(* before a final line feed, so the last path segment it keeps is either   *)
(* such a string or such a string followed by a line feed.                 *)
(***************************************************************************)
IdTokens == {"A", "B"}
IdA == <<"A">>
IdB == <<"B">>
IdANL == <<"A", NL>>
Ids == {IdA, IdB, IdANL}

(***************************************************************************)
(* SpecDedupe: _remove_duplicates on every pair of lists up to MaxLen.     *)
(***************************************************************************)
InitDedupe ==
    /\ dd_new \in BSeq(Ids, MaxLen)
    /\ dd_old \in BSeq(Ids, MaxLen)
    /\ dd_out = <<>>
    /\ dd_pc = "call"

RemoveDuplicates ==
    /\ UNCHANGED <<pipeVars, exVars>>
    /\ dd_pc = "call"
    /\ dd_out' \in remove_duplicates(dd_new, dd_old)
    /\ dd_pc' = "returned"
    /\ UNCHANGED <<dd_new, dd_old>>

(***************************************************************************)
(* Lines of a fetched document, run-length encoded.  Tokens: "x" an        *)
(* ordinary character, " " a blank, "." and "@" themselves, "A^" the        *)
(* mojibake character (A circumflex), "lab" / "LAB" / "University" an occurrence of a     *)
(* keyword in that spelling.                                               *)
(***************************************************************************)
Run(c, n) == [c |-> c, n |-> n]

LowerTok(c) ==
    CASE c = "LAB" -> "lab"
      [] c = "University" -> "university"
      [] OTHER -> c

\* len() of one occurrence of a token
TokLen(c) ==
    CASE LowerTok(c) = "lab" -> 3
      [] LowerTok(c) = "university" -> 10
      [] OTHER -> 1

RECURSIVE StrLen(_)
StrLen(s) == IF s = <<>> THEN 0 ELSE s[1].n * TokLen(s[1].c) + StrLen(Tail(s))

IsSpace(c) == c = " "

RECURSIVE LStrip(_)
LStrip(s) ==
    IF s = <<>> THEN <<>>
    ELSE IF IsSpace(s[1].c) THEN LStrip(Tail(s)) ELSE s

RECURSIVE RStrip(_)
RStrip(s) ==
    IF s = <<>> THEN <<>>
    ELSE IF IsSpace(s[Len(s)].c) THEN RStrip(SubSeq(s, 1, Len(s) - 1)) ELSE s

\* str.strip()
Strip(s) == RStrip(LStrip(s))

\* str.lower()
Lower(s) == [i \in DOMAIN s |-> Run(LowerTok(s[i].c), s[i].n)]

\* sub in s, for a token
Contains(s, tok) == \E i \in DOMAIN s : s[i].c = tok

\* s.replace(old, new), one character for one character
Replace(s, old, new) ==
    [i \in DOMAIN s |-> IF s[i].c = old THEN Run(new, s[i].n) ELSE s[i]]

Keywords ==
    {"university", "lab", "department", "institute", "corresponding author"}

min_line_length == 40
body_start_min_length == 100

\* The last line returning False whatever the line holds.
is_valid_body_line_never(line, min_length) == FALSE

\* PaperSummarizer._is_valid_body_line
is_valid_body_line(line, min_length) ==
    IF Contains(line, "@") THEN FALSE
    ELSE IF \E kw \in Keywords : Contains(Lower(line), kw) THEN FALSE
    ELSE IF StrLen(line) < min_length THEN FALSE
    ELSE IF ~Contains(line, ".") THEN FALSE ELSE TRUE

\* The loop of _extract_body_text that sets start_index (0-based), from the
\* line at 0-based index i on.
RECURSIVE FindStart(_, _)
FindStart(ls, i) ==
    IF i >= Len(ls) THEN 0
    ELSE LET clean_line == Strip(ls[i + 1])
         IN  IF StrLen(clean_line) < min_line_length THEN FindStart(ls, i + 1)
             ELSE IF is_valid_body_line(clean_line, body_start_min_length) THEN i
             ELSE FindStart(ls, i + 1)

\* The loop of _extract_body_text that builds filtered_lines.
RECURSIVE FilterLines(_)
FilterLines(body_lines) ==
    IF body_lines = <<>> THEN <<>>
    ELSE LET line == Head(body_lines)
         IN  IF StrLen(Strip(line)) >= min_line_length
             THEN <<Strip(Replace(Strip(line), "A^", " "))>>
                      \o FilterLines(Tail(body_lines))
             ELSE FilterLines(Tail(body_lines))

\* lines[start_index:]
SliceFrom(ls, start) == SubSeq(ls, start + 1, Len(ls))

(***************************************************************************)
(* SpecExtract: the lines of a document, each drawn from DocLines.         *)
(***************************************************************************)
DocLines ==
    { <<Run("x", 30)>>,                                   \* short
      <<Run("x", 50)>>,                                   \* kept, no "."
      <<Run("x", 99), Run(".", 1)>>,                      \* 100 with "."
      <<Run("x", 98), Run(".", 1)>>,                      \* 99 with "."
      <<Run("x", 100)>>,                                  \* 100 without "."
      <<Run("x", 99), Run(".", 1), Run("@", 1)>>,         \* an address
      <<Run("x", 97), Run("lab", 1), Run(".", 1)>>,       \* a keyword
      <<Run("x", 90), Run("University", 1), Run(".", 1)>>,\* a keyword, capital
      <<Run(" ", 70), Run("x", 39), Run(".", 1)>>,        \* 40 after strip
      <<Run(" ", 2), Run("x", 99), Run(".", 1), Run(" ", 2)>>,
      <<Run("A^", 1), Run("x", 39)>>,                      \* 40, "A^" first
      <<Run("x", 20), Run("A^", 1), Run("x", 20)>>,        \* "A^" inside
      <<Run("A^", 40)>> }                                  \* "A^" only

InitExtract ==
    /\ lines \in BSeq(DocLines, MaxLines)
    /\ start_index = 0
    /\ filtered_lines = <<>>
    /\ ex_pc = "call"

\* _extract_body_text from lines = full_text.splitlines() on; the value it
\* returns is "\n".join(filtered_lines).
ExtractBodyText ==
    /\ UNCHANGED <<pipeVars, ddVars>>
    /\ ex_pc = "call"
    /\ start_index' = FindStart(lines, 0)
    /\ filtered_lines' = FilterLines(SliceFrom(lines, FindStart(lines, 0)))
    /\ ex_pc' = "returned"
    /\ UNCHANGED lines

(***************************************************************************)
(* Files of the output directory: a function from the days that have the   *)
(* file to its content.  open(path, "w") followed by f.write(content)      *)
(* creates or truncates the file and leaves exactly the content in it.     *)
(***************************************************************************)
NoFiles == [d \in {} |-> <<>>]

\* open(path, "a"): the content is added to what the file holds.
write_file_append(files, day, content) ==
    [d \in DOMAIN files \cup {day} |->
        IF d = day
        THEN (IF day \in DOMAIN files THEN files[day] ELSE <<>>) \o content
        ELSE files[d]]

write_file(files, day, content) ==
    [d \in DOMAIN files \cup {day} |-> IF d = day THEN content ELSE files[d]]

(***************************************************************************)
(* PaperIdRetriever.retrieve_from_hugging_face.  A response is either a    *)
(* failed request (requests.exceptions.RequestException, raised by         *)
(* requests.get or by raise_for_status) or a page, given by the href of    *)
(* each anchor inside its articles, in document order.  An href is a       *)
(* sequence of tokens: a path prefix, then the rest; NoneHref is an anchor *)
(* without the attribute (a.get("href") is None).                          *)
(***************************************************************************)
NoneHref == <<"None">>
HrefA == <<"/papers/", "A">>
HrefB == <<"/papers/", "B">>
HrefANL == <<"/papers/", "A", NL>>
HrefTail == <<"/papers/", "A", "x">>
HrefOther == <<"/other/", "A">>

Responses ==
    { [kind |-> "request_error", hrefs |-> <<>>],
      [kind |-> "page", hrefs |-> <<>>],
      [kind |-> "page", hrefs |-> <<HrefA, HrefOther, HrefA, HrefTail>>],
      [kind |-> "page", hrefs |-> <<HrefB, HrefA>>],
      [kind |-> "page", hrefs |-> <<HrefANL>>],
      [kind |-> "page", hrefs |-> <<HrefA, NoneHref>>] }

\* re.match(rf"^/papers/{Config.arxiv_id_regex}$", href)
HrefMatches(h) ==
    /\ Len(h) >= 2
    /\ h[1] = "/papers/"
    /\ h[2] \in IdTokens
    /\ \/ Len(h) = 2
       \/ Len(h) = 3 /\ h[3] = NL

\* href.split("/")[-1]
LastSegment(h) == Tail(h)

RECURSIVE ScrapeIds(_)
ScrapeIds(hrefs) ==
    IF hrefs = <<>> THEN <<>>
    ELSE IF HrefMatches(Head(hrefs))
         THEN <<LastSegment(Head(hrefs))>> \o ScrapeIds(Tail(hrefs))
         ELSE ScrapeIds(Tail(hrefs))

\* The request's failure leaving the function like any other fault.
retrieve_raises_all(resp) ==
    \/ resp.kind = "request_error"
    \/ \E i \in DOMAIN resp.hrefs : resp.hrefs[i] = NoneHref

\* Whether the call raises: only RequestException is caught, and re.match
\* raises TypeError on an href that is None.
retrieve_raises(resp) ==
    /\ resp.kind = "page"
    /\ \E i \in DOMAIN resp.hrefs : resp.hrefs[i] = NoneHref

\* Every list the call may return, when it returns: list(set(arxiv_ids)).
retrieve_from_hugging_face(resp) ==
    IF resp.kind = "request_error" THEN ListsOfSet({})
    ELSE ListsOfSet(ToSet(ScrapeIds(resp.hrefs)))

(***************************************************************************)
(* PaperSummarizer._load_old_arxiv_ids and _save_arxiv_ids                 *)
(***************************************************************************)
history_first == 1
history_last == 7

\* The files of days day - i, for i from `i` to `last`, in that order; a
\* day without a file is skipped (FileNotFoundError).
RECURSIVE LoadFrom(_, _, _, _)
LoadFrom(files, day, i, last) ==
    IF i > last THEN <<>>
    ELSE (IF (day - i) \in DOMAIN files
          THEN SplitLines(files[day - i]) ELSE <<>>)
         \o LoadFrom(files, day, i + 1, last)

\* range(1, 9): one day more.
load_old_arxiv_ids_one_more(files, day) ==
    LoadFrom(files, day, history_first, history_last + 1)

load_old_arxiv_ids(files, day) ==
    LoadFrom(files, day, history_first, history_last)

save_arxiv_ids(files, day, ids) == write_file(files, day, Join(ids, <<NL>>))

(***************************************************************************)
(* The digest writers: PaperSummarizer._store_summaries and                *)
(* RedditExplorer._store_summaries.                                        *)
(***************************************************************************)
PaperSeparator == <<NL, NL, "---", NL, NL>>
RedditSeparator == <<NL, "---", NL>>

store_summaries(files, day, summaries) ==
    write_file(files, day, Join(summaries, PaperSeparator))

reddit_store_summaries(files, day, summaries) ==
    write_file(files, day, Join(summaries, RedditSeparator))

(***************************************************************************)
(* PaperSummarizer._process_paper: the markdown of one paper.  The fetch   *)
(* of the metadata, the extraction and the summarization are calls to      *)
(* collaborators; the text they give back for an identifier is a function  *)
(* of the identifier here.                                                 *)
(***************************************************************************)
process_paper(arxiv_id) == <<"#">> \o arxiv_id

max_workers == 2

\* Results taken from the last future to the first.
NextToYieldReversed(n, k) == n - k

\* Executor.map's result iterator: with k results yielded out of n, the
\* future it waits for next is the one of item k + 1.
NextToYield(n, k) == k + 1

(***************************************************************************)
(* The entry points.  A name used by a function is looked up among the     *)
(* names its module binds (imports and definitions) and the builtins;      *)
(* a name bound nowhere raises NameError where it is used.                 *)
(***************************************************************************)
Builtins == {"print", "list", "set", "len", "open", "next", "Exception"}

PaperModuleNames ==
    Builtins \cup
    {"concurrent", "inspect", "os", "re", "dataclass", "field", "date",
     "timedelta", "Any", "arxiv", "requests", "BeautifulSoup", "tqdm",
     "create_client", "Config", "remove_tex_backticks",
     "remove_outer_markdown_markers", "remove_outer_singlequotes",
     "PaperInfo", "PaperIdRetriever", "PaperSummarizer", "lambda_handler"}

RedditModuleNames ==
    Builtins \cup
    {"inspect", "os", "tomllib", "dataclass", "field", "date", "Any",
     "Literal", "praw", "create_client", "Config", "RedditPost",
     "RedditExplorer", "lambda_handler"}

\* event.get("source")
EventSources == {"aws.events", "other"}

\* What the host gets when a fault leaves the body the entry point runs:
\* the two lambda_handler functions catch Exception and, in the handler,
\* use traceback (and pprint); run_all catches nothing.
OnFault(e) ==
    CASE e = "paper_lambda" ->
             IF {"pprint", "traceback"} \subseteq PaperModuleNames
             THEN "500" ELSE "raised"
      [] e = "reddit_lambda" ->
             IF "traceback" \in RedditModuleNames THEN "500" ELSE "raised"
      [] OTHER -> "raised"

HistInit ==
    [ faulted |-> FALSE,        \* a fault was raised during the invocation
      workerFault |-> FALSE,    \* a call of _process_paper raised
      listingFailed |-> FALSE,  \* the listing request failed
      call |-> "none",          \* PaperSummarizer.__call__: none / running /
                                \*   returned / raised
      order |-> <<>>,           \* the items in the order their calls ended,
                                \*   while the results are being taken
      partial |-> 0,            \* results already taken when a fault came out
      loadDay |-> 0,            \* the day _load_old_arxiv_ids ran
      idFile0 |-> NoFiles,      \* the snapshot files when __call__ began
      digestFile0 |-> NoFiles,  \* the digest files when __call__ began
      savedIds |-> NoFiles,     \* day -> the list last given to _save_arxiv_ids
      sameDayAgain |-> FALSE,   \* _save_arxiv_ids ran on a day that already
                                \*   had its snapshot: two completed runs of
                                \*   one calendar day
      paperParts |-> NoFiles,   \* day -> the list last given to _store_summaries
      redditParts |-> NoFiles ] \* the same, RedditExplorer

\* The history of a new invocation; what was written so far is kept.
HistFresh ==
    [HistInit EXCEPT !.savedIds = hist.savedIds,
                     !.sameDayAgain = hist.sameDayAgain,
                     !.paperParts = hist.paperParts,
                     !.redditParts = hist.redditParts]

NoPaper ==
    /\ old_arxiv_ids = <<>>
    /\ new_arxiv_ids = <<>>
    /\ fut = <<>>
    /\ markdowns = <<>>

InitPipe ==
    /\ today = 0
    /\ idFile = NoFiles
    /\ digestFile = NoFiles
    /\ redditFile = NoFiles
    /\ entry = "none"
    /\ pc = "idle"
    /\ result = "none"
    /\ runs = 0
    /\ NoPaper
    /\ hist = HistInit

\* The invocation ends: the host gets `res`, the objects are dropped.
Finish(res) ==
    /\ entry' = "none"
    /\ pc' = "idle"
    /\ result' = res
    /\ old_arxiv_ids' = <<>>
    /\ new_arxiv_ids' = <<>>
    /\ fut' = <<>>
    /\ markdowns' = <<>>

\* A fault leaves the body of the entry point.
Propagate ==
    /\ Finish(OnFault(entry))
    /\ hist' = [hist EXCEPT !.faulted = TRUE,
                            !.order = <<>>,
                            !.call = IF @ = "running" THEN "raised" ELSE @]

\* A day passes between two invocations (each invocation runs within one
\* day); days after the last invocation the bounds allow are not followed.
Tick ==
    /\ UNCHANGED <<ddVars, exVars>>
    /\ entry = "none"
    /\ today < MaxDay
    /\ runs < MaxRuns
    /\ today' = today + 1
    /\ UNCHANGED <<idFile, digestFile, redditFile, entryVars, paperVars, hist>>

\* paper_summarizer.lambda_handler: pprint(event), then the try block.
PaperLambdaHandler ==
    /\ UNCHANGED <<ddVars, exVars>>
    /\ entry = "none"
    /\ runs < MaxRuns
    /\ runs' = runs + 1
    /\ \E source \in EventSources :
         IF "pprint" \notin PaperModuleNames
         THEN /\ result' = "raised"
              /\ hist' = [HistFresh EXCEPT !.faulted = TRUE]
              /\ UNCHANGED <<entry, pc>>
         ELSE IF source = "aws.events"
         THEN /\ entry' = "paper_lambda"
              /\ pc' = "construct"
              /\ result' = "none"
              /\ hist' = HistFresh
         ELSE /\ result' = "200"
              /\ hist' = HistFresh
              /\ UNCHANGED <<entry, pc>>
    /\ UNCHANGED <<fileVars, paperVars>>

\* reddit_explorer.lambda_handler: print(event), then the try block.
RedditLambdaHandler ==
    /\ UNCHANGED <<ddVars, exVars>>
    /\ entry = "none"
    /\ runs < MaxRuns
    /\ runs' = runs + 1
    /\ hist' = HistFresh
    /\ \E source \in EventSources :
         IF source = "aws.events"
         THEN /\ entry' = "reddit_lambda"
              /\ pc' = "reddit_construct"
              /\ result' = "none"
         ELSE /\ result' = "200"
              /\ UNCHANGED <<entry, pc>>
    /\ UNCHANGED <<fileVars, paperVars>>

\* main.run_all, up to the construction of the handlers.
RunAll ==
    /\ UNCHANGED <<ddVars, exVars>>
    /\ entry = "none"
    /\ runs < MaxRuns
    /\ runs' = runs + 1
    /\ hist' = HistFresh
    /\ entry' = "run_all"
    /\ pc' = "construct"
    /\ result' = "none"
    /\ UNCHANGED <<fileVars, paperVars>>

\* PaperSummarizer.__init__
ConstructPaper ==
    /\ UNCHANGED <<ddVars, exVars>>
    /\ pc = "construct"
    /\ old_arxiv_ids' = load_old_arxiv_ids(idFile, today)
    /\ hist' = [hist EXCEPT !.loadDay = today]
    /\ pc' = IF entry = "run_all" THEN "construct_others" ELSE "call"
    /\ UNCHANGED <<fileVars, entry, result, runs, new_arxiv_ids, fut, markdowns>>

\* run_all: HackerNewsRetriever(), RedditExplorer(), GithubTrending()
ConstructOthers ==
    /\ UNCHANGED <<ddVars, exVars>>
    /\ pc = "construct_others"
    /\ pc' = "call"
    /\ UNCHANGED <<fileVars, entry, result, runs, paperVars, hist>>

\* A collaborator raises: a constructor (create_client, praw.Reddit,
\* load_subreddits), or the call of one of the other handlers.
FaultPoints ==
    {"construct", "construct_others", "hn_call", "reddit_construct",
     "reddit_call", "github_call"}

CollaboratorFault ==
    /\ UNCHANGED <<ddVars, exVars>>
    /\ pc \in FaultPoints
    /\ Propagate
    /\ UNCHANGED fileVars
    /\ UNCHANGED runs

\* PaperSummarizer.__call__, to the submission of the futures: the
\* listing, _remove_duplicates, executor.map.
CallStart ==
    /\ UNCHANGED <<ddVars, exVars>>
    /\ pc = "call"
    /\ \E resp \in Responses :
         IF retrieve_raises(resp)
         THEN /\ Finish(OnFault(entry))
              /\ hist' = [hist EXCEPT
                            !.faulted = TRUE,
                            !.call = "raised",
                            !.listingFailed = (resp.kind = "request_error"),
                            !.idFile0 = idFile,
                            !.digestFile0 = digestFile]
         ELSE /\ \E cands \in retrieve_from_hugging_face(resp) :
                 \E new \in remove_duplicates(cands, old_arxiv_ids) :
                    /\ new_arxiv_ids' = new
                    /\ fut' = [i \in DOMAIN new |->
                                  [st |-> "pending", val |-> <<>>]]
              /\ markdowns' = <<>>
              /\ pc' = "map"
              /\ hist' = [hist EXCEPT
                            !.call = "running",
                            !.listingFailed = (resp.kind = "request_error"),
                            !.idFile0 = idFile,
                            !.digestFile0 = digestFile]
              /\ UNCHANGED <<entry, result, old_arxiv_ids>>
    /\ UNCHANGED <<fileVars, runs>>

Running == {i \in DOMAIN fut : fut[i].st = "running"}
Pending == {i \in DOMAIN fut : fut[i].st = "pending"}

\* A thread of the pool takes the next work item of the queue.
WorkerStart ==
    /\ UNCHANGED <<ddVars, exVars>>
    /\ pc \in {"map", "abort"}
    /\ Pending # {}
    /\ Cardinality(Running) < max_workers
    /\ LET i == CHOOSE j \in Pending : \A k \in Pending : j <= k
       IN  fut' = [fut EXCEPT ![i].st = "running"]
    /\ UNCHANGED <<fileVars, entryVars, old_arxiv_ids, new_arxiv_ids, markdowns, hist>>

\* _process_paper returns.
WorkerReturn ==
    /\ UNCHANGED <<ddVars, exVars>>
    /\ pc \in {"map", "abort"}
    /\ \E i \in Running :
         /\ fut' = [fut EXCEPT ![i] = [st |-> "done",
                                       val |-> process_paper(new_arxiv_ids[i])]]
         /\ hist' = [hist EXCEPT !.order = Append(@, i)]
    /\ UNCHANGED <<fileVars, entryVars, old_arxiv_ids, new_arxiv_ids, markdowns>>

\* _process_paper raises (the metadata fetch, the extraction or the
\* summarization).
WorkerRaise ==
    /\ UNCHANGED <<ddVars, exVars>>
    /\ pc \in {"map", "abort"}
    /\ \E i \in Running :
         /\ fut' = [fut EXCEPT ![i].st = "failed"]
         /\ hist' = [hist EXCEPT !.workerFault = TRUE,
                                 !.order = Append(@, i)]
    /\ UNCHANGED <<fileVars, entryVars, old_arxiv_ids, new_arxiv_ids, markdowns>>

\* list(tqdm(executor.map(...))) takes the next result.
CollectResult ==
    /\ UNCHANGED <<ddVars, exVars>>
    /\ pc = "map"
    /\ Len(markdowns) < Len(fut)
    /\ LET k == NextToYield(Len(fut), Len(markdowns))
       IN  /\ fut[k].st = "done"
           /\ markdowns' = Append(markdowns, fut[k].val)
    /\ UNCHANGED <<fileVars, entryVars, old_arxiv_ids, new_arxiv_ids, fut, hist>>

\* The next result is a fault: the iterator cancels the futures not yet
\* begun and the fault leaves list(...).
CollectFault ==
    /\ UNCHANGED <<ddVars, exVars>>
    /\ pc = "map"
    /\ Len(markdowns) < Len(fut)
    /\ LET k == NextToYield(Len(fut), Len(markdowns))
       IN  fut[k].st = "failed"
    /\ fut' = [i \in DOMAIN fut |->
                 IF fut[i].st = "pending"
                 THEN [st |-> "cancelled", val |-> <<>>] ELSE fut[i]]
    /\ pc' = "abort"
    /\ hist' = [hist EXCEPT !.partial = Len(markdowns)]
    /\ UNCHANGED <<fileVars, entry, result, runs, old_arxiv_ids, new_arxiv_ids,
                   markdowns>>

\* Every result is taken; the with block ends (shutdown(wait=True)).
CollectEnd ==
    /\ UNCHANGED <<ddVars, exVars>>
    /\ pc = "map"
    /\ Len(markdowns) = Len(fut)
    /\ pc' = "save"
    /\ UNCHANGED <<fileVars, entry, result, runs, paperVars, hist>>

\* The fault is swallowed and the results at hand are written.
JoinAbortAndGoOn ==
    /\ UNCHANGED <<ddVars, exVars>>
    /\ pc = "abort"
    /\ Running = {}
    /\ pc' = "save"
    /\ UNCHANGED <<fileVars, entry, result, runs, paperVars, hist>>

\* The with block ends on the fault: shutdown(wait=True) waits for the
\* calls still running, then the fault leaves __call__.
JoinAbort ==
    /\ UNCHANGED <<ddVars, exVars>>
    /\ pc = "abort"
    /\ Running = {}
    /\ Propagate
    /\ UNCHANGED <<fileVars, runs>>

\* self._save_arxiv_ids(new_arxiv_ids)
SaveIds ==
    /\ UNCHANGED <<ddVars, exVars>>
    /\ pc = "save"
    /\ idFile' = save_arxiv_ids(idFile, today, new_arxiv_ids)
    /\ hist' = [hist EXCEPT
                  !.order = <<>>,
                  !.sameDayAgain = @ \/ today \in DOMAIN idFile,
                  !.savedIds = [d \in DOMAIN @ \cup {today} |->
                                   IF d = today THEN new_arxiv_ids ELSE @[d]]]
    /\ pc' = "store"
    /\ UNCHANGED <<today, digestFile, redditFile, entry, result, runs, paperVars>>

\* self._store_summaries(markdowns); __call__ returns.
StoreSummaries ==
    /\ UNCHANGED <<ddVars, exVars>>
    /\ pc = "store"
    /\ digestFile' = store_summaries(digestFile, today, markdowns)
    /\ hist' = [hist EXCEPT
                  !.paperParts = [d \in DOMAIN @ \cup {today} |->
                                     IF d = today THEN markdowns ELSE @[d]],
                  !.call = "returned"]
    /\ IF entry = "run_all"
       THEN /\ pc' = "hn_call"
            /\ UNCHANGED <<entry, result, paperVars>>
       ELSE Finish("200")
    /\ UNCHANGED <<today, idFile, redditFile, runs>>

\* run_all: the HackerNewsRetriever handler runs.
HackerNewsCall ==
    /\ UNCHANGED <<ddVars, exVars>>
    /\ pc = "hn_call"
    /\ pc' = "reddit_call"
    /\ UNCHANGED <<fileVars, entry, result, runs, paperVars, hist>>

\* RedditExplorer.__init__ (lambda_handler)
ConstructReddit ==
    /\ UNCHANGED <<ddVars, exVars>>
    /\ pc = "reddit_construct"
    /\ pc' = "reddit_call"
    /\ UNCHANGED <<fileVars, entry, result, runs, paperVars, hist>>

\* The markdowns RedditExplorer.__call__ may have built when it stores them.
RedditMarkdowns == { <<>>, <<<<"p1">>, <<"p2">>>> }

\* RedditExplorer.__call__: the loop over the subreddits, then
\* _store_summaries(markdowns).
RedditCall ==
    /\ UNCHANGED <<ddVars, exVars>>
    /\ pc = "reddit_call"
    /\ \E mds \in RedditMarkdowns :
         /\ redditFile' = reddit_store_summaries(redditFile, today, mds)
         /\ hist' = [hist EXCEPT
                       !.redditParts = [d \in DOMAIN @ \cup {today} |->
                                           IF d = today THEN mds ELSE @[d]]]
    /\ IF entry = "run_all"
       THEN /\ pc' = "github_call"
            /\ UNCHANGED <<entry, result, paperVars>>
       ELSE Finish("200")
    /\ UNCHANGED <<today, idFile, digestFile, runs>>

\* run_all: the GithubTrending handler runs, and run_all returns (None).
GithubCall ==
    /\ UNCHANGED <<ddVars, exVars>>
    /\ pc = "github_call"
    /\ Finish("returned")
    /\ UNCHANGED <<fileVars, runs, hist>>

Next ==
    \/ Tick
    \/ PaperLambdaHandler
    \/ RedditLambdaHandler
    \/ RunAll
    \/ ConstructPaper
    \/ ConstructOthers
    \/ CollaboratorFault
    \/ CallStart
    \/ WorkerStart
    \/ WorkerReturn
    \/ WorkerRaise
    \/ CollectResult
    \/ CollectFault
    \/ CollectEnd
    \/ JoinAbort
    \/ SaveIds
    \/ StoreSummaries
    \/ HackerNewsCall
    \/ ConstructReddit
    \/ RedditCall
    \/ GithubCall

(***************************************************************************)
(* The specifications.  Each moves its own variables and holds the others. *)
(***************************************************************************)
IdleDedupe ==
    /\ dd_new = <<>>
    /\ dd_old = <<>>
    /\ dd_out = <<>>
    /\ dd_pc = "off"

IdleExtract ==
    /\ lines = <<>>
    /\ start_index = 0
    /\ filtered_lines = <<>>
    /\ ex_pc = "off"

Init == InitPipe /\ IdleDedupe /\ IdleExtract
Spec == Init /\ [][Next]_vars

InitD == InitDedupe /\ InitPipe /\ IdleExtract
NextD == RemoveDuplicates
SpecDedupe == InitD /\ [][NextD]_vars

\* SpecFanout: __call__ from the submission of the futures on, for every
\* list of up to MaxItems distinct identifiers, on a day whose files either
\* do not exist yet or were written by an earlier run of the same day.
FanoutIds == Ids \cup {<<"B", NL>>}

EarlierIds == <<IdB>>

InitFanout ==
    /\ today = 0
    /\ redditFile = NoFiles
    /\ entry = "run_all"
    /\ pc = "map"
    /\ result = "none"
    /\ runs = 1
    /\ old_arxiv_ids = <<>>
    /\ new_arxiv_ids \in {s \in BSeq(FanoutIds, MaxItems) : NoDuplicates(s)}
    /\ fut = [i \in DOMAIN new_arxiv_ids |-> [st |-> "pending", val |-> <<>>]]
    /\ markdowns = <<>>
    /\ \E earlier \in BOOLEAN :
         /\ idFile = IF earlier THEN save_arxiv_ids(NoFiles, 0, EarlierIds)
                      ELSE NoFiles
         /\ digestFile =
               IF earlier
               THEN store_summaries(NoFiles, 0, <<process_paper(IdB)>>)
               ELSE NoFiles
         /\ hist = [HistInit EXCEPT
                      !.call = "running",
                      !.idFile0 = idFile,
                      !.digestFile0 = digestFile,
                      !.savedIds = IF earlier THEN [d \in {0} |-> EarlierIds]
                                   ELSE NoFiles,
                      !.paperParts =
                          IF earlier
                          THEN [d \in {0} |-> <<process_paper(IdB)>>]
                          ELSE NoFiles]

InitF == InitFanout /\ IdleDedupe /\ IdleExtract
NextF ==
    \/ WorkerStart
    \/ WorkerReturn
    \/ WorkerRaise
    \/ CollectResult
    \/ CollectFault
    \/ CollectEnd
    \/ JoinAbort
    \/ SaveIds
    \/ StoreSummaries
SpecFanout == InitF /\ [][NextF]_vars

InitE == InitExtract /\ InitPipe /\ IdleDedupe
NextE == ExtractBodyText
SpecExtract == InitE /\ [][NextE]_vars

(***************************************************************************)
(* Properties.                                                             *)
(***************************************************************************)

\* C1 (SpecDedupe).  _remove_duplicates returns exactly the identifiers of
\* the candidate list that the history does not hold: each returned
\* identifier is a candidate and is not in the history, each candidate not
\* in the history is returned, and none is returned twice, duplicates among
\* the candidates or not.
C1_DedupeIsSetDifference ==
    dd_pc = "returned" =>
        /\ \A i \in DOMAIN dd_out :
              /\ \E j \in DOMAIN dd_new : dd_new[j] = dd_out[i]
              /\ ~ \E k \in DOMAIN dd_old : dd_old[k] = dd_out[i]
        /\ \A j \in DOMAIN dd_new :
              (~ \E k \in DOMAIN dd_old : dd_old[k] = dd_new[j])
                  => \E i \in DOMAIN dd_out : dd_out[i] = dd_new[j]
        /\ \A i, j \in DOMAIN dd_out : i # j => dd_out[i] # dd_out[j]

\* A call whose candidates repeat an identifier that it returns, and hold
\* another one that the history removes.
C1_Witness ==
    /\ dd_pc = "returned"
    /\ \E i, j \in DOMAIN dd_new :
          i # j /\ dd_new[i] = dd_new[j] /\ dd_new[i] \in ToSet(dd_out)
    /\ \E i \in DOMAIN dd_new : dd_new[i] \in ToSet(dd_old)

\* The invocation has a PaperSummarizer whose __init__ has returned.
Loaded ==
    /\ entry \in {"run_all", "paper_lambda"}
    /\ pc # "construct"

\* The days the history of a given day covers.
WindowOf(day) == {d \in Int : day - 7 <= d /\ d <= day - 1}

C3_PersistThenLoadSurfacesAll ==
    Loaded =>
        \A d \in DOMAIN hist.savedIds \cap WindowOf(hist.loadDay) :
            ToSet(hist.savedIds[d]) \subseteq ToSet(old_arxiv_ids)

\* C4 (SpecFanout).  Whatever the order in which the calls of the pool end,
\* the results taken so far are those of the first items, in the order of
\* the items, and once all are taken there is one per item.
C4_MapPreservesOrder ==
    /\ \A i \in DOMAIN markdowns :
          /\ i <= Len(new_arxiv_ids)
          /\ markdowns[i] = process_paper(new_arxiv_ids[i])
    /\ pc \in {"save", "store", "hn_call"}
          => Len(markdowns) = Len(new_arxiv_ids)

\* Three items, all results taken; the call of the first item ended last,
\* after those of the second and the third.
C4_Witness ==
    /\ pc = "save"
    /\ Len(markdowns) = 3
    /\ hist.order = <<2, 3, 1>>

\* C5 (SpecFanout).  Once a call of _process_paper has raised, the snapshot
\* and digest files stay what they were when __call__ began, neither
\* _save_arxiv_ids nor _store_summaries is reached, and when the
\* invocation is over the fault has left __call__.
C5_WorkerFaultWritesNothing ==
    hist.workerFault =>
        /\ idFile = hist.idFile0
        /\ digestFile = hist.digestFile0
        /\ pc \notin {"save", "store", "hn_call"}
        /\ hist.call # "returned"
        /\ pc = "idle" => hist.call = "raised" /\ result = "raised"

\* A fault came out after a result of another item had been taken, on a
\* day that already had its two files; the invocation is over.
C5_Witness ==
    /\ hist.workerFault
    /\ pc = "idle"
    /\ hist.call = "raised"
    /\ hist.partial >= 1
    /\ today \in DOMAIN idFile
    /\ today \in DOMAIN digestFile

\* s.strip().replace("Â", " ").strip(), what the output holds for a line.
CleanLine(l) == Strip(Replace(Strip(l), "A^", " "))

\* The lines of a list whose trimmed length reaches the threshold, cleaned.
KeptLines(ls) ==
    LET kept == SelectSeq(ls, LAMBDA l : StrLen(Strip(l)) >= 40)
    IN  [i \in DOMAIN kept |-> CleanLine(kept[i])]

\* A line that the body-start search takes as the start of the body.
Qualifies(l) ==
    LET t == Strip(l)
    IN  /\ StrLen(t) >= 100
        /\ ~ \E i \in DOMAIN t : t[i].c = "@"
        /\ \E i \in DOMAIN t : t[i].c = "."
        /\ ~ \E i \in DOMAIN t : LowerTok(t[i].c) \in Keywords

\* C6 (SpecExtract), as stated: the body-start search never finds a line,
\* the start index is 0 and the output is every line of the document whose
\* trimmed length is at least 40.
C6_BodyStartSearchIsNoOp ==
    ex_pc = "returned" =>
        /\ start_index = 0
        /\ filtered_lines = KeptLines(lines)

\* C6 (SpecExtract), amended: the start index is the index of the first
\* line that qualifies (trimmed length at least 100, a ".", no "@", no
\* keyword in any case), 0 when none does, and the output is the lines from
\* the start index on whose trimmed length is at least 40.
C6_BodyStartIsFirstQualifyingLine ==
    ex_pc = "returned" =>
        /\ start_index \in 0..Len(lines)
        /\ start_index > 0 => Qualifies(lines[start_index + 1])
        /\ \A j \in 1..start_index : ~Qualifies(lines[j])
        /\ (start_index = 0 /\ \E j \in DOMAIN lines : Qualifies(lines[j]))
              => Qualifies(lines[1])
        /\ filtered_lines =
              KeptLines(SubSeq(lines, start_index + 1, Len(lines)))

\* A line long enough for the output comes before the first qualifying
\* line, and is not in the output.
C6_Witness ==
    /\ ex_pc = "returned"
    /\ start_index > 0
    /\ \E j \in 1..start_index : StrLen(Strip(lines[j])) >= 40
    /\ Len(filtered_lines) < Len(KeptLines(lines))

\* C7 (SpecExtract).  Every line of the output has length at least 40.
C7_OutputLinesAtLeastMinLength ==
    ex_pc = "returned" =>
        \A i \in DOMAIN filtered_lines : StrLen(filtered_lines[i]) >= 40

\* C8 (Spec).  An invocation of an entry point during which a fault was
\* raised ends with the status 500 handed to the host.
C8_EntryPointsReportFailure ==
    (entry = "none" /\ hist.faulted) => result = "500"

\* C9 (Spec).  Each digest file holds exactly the parts of the last write
\* for its day, joined by the separator of its pipeline, whatever it held
\* before.
C9_DigestIsJoinOfLastWrite ==
    /\ DOMAIN digestFile = DOMAIN hist.paperParts
    /\ DOMAIN redditFile = DOMAIN hist.redditParts
    /\ \A d \in DOMAIN digestFile :
          digestFile[d] = Join(hist.paperParts[d], <<NL, NL, "---", NL, NL>>)
    /\ \A d \in DOMAIN redditFile :
          redditFile[d] = Join(hist.redditParts[d], <<NL, "---", NL>>)

\* The day's paper digest held parts when __call__ began and the call wrote
\* an empty list of parts over them.
C9_Witness ==
    /\ hist.call = "returned"
    /\ hist.loadDay \in DOMAIN hist.digestFile0
    /\ hist.digestFile0[hist.loadDay] # <<>>
    /\ hist.paperParts[hist.loadDay] = <<>>
    /\ digestFile[hist.loadDay] = <<>>

\* C10 (Spec).  After a failed listing request __call__ has no identifier
\* and no future, does not raise, and when it has returned the day's
\* snapshot and digest exist and are empty.
C10_ListingFailureIsNotFatal ==
    hist.listingFailed =>
        /\ new_arxiv_ids = <<>>
        /\ fut = <<>>
        /\ markdowns = <<>>
        /\ hist.call \in {"running", "returned"}
        /\ hist.call = "returned" =>
              /\ hist.loadDay \in DOMAIN idFile
              /\ idFile[hist.loadDay] = <<>>
              /\ hist.loadDay \in DOMAIN digestFile
              /\ digestFile[hist.loadDay] = <<>>

\* The listing request failed and __call__ has returned, on a day that had
\* neither file.
C10_Witness ==
    /\ hist.listingFailed
    /\ hist.call = "returned"
    /\ hist.loadDay \notin DOMAIN hist.idFile0
    /\ hist.loadDay \in DOMAIN idFile


\* ---------------------------------------------------------------------
\* C11 (Spec).  Over completed runs of the paper pipeline, a new
\* PaperSummarizer per run and at most one completed run per calendar
\* day, an identifier written to the snapshot of day D is not written
\* (and so not summarized: the list written is the list summarized) on
\* any of the days D+1 .. D+7: the lists written on two different days
\* at most 7 days apart have no identifier in common.
SnapshotDays == DOMAIN hist.savedIds

C11_SnapshotsWithinWindowDisjoint ==
    ~hist.sameDayAgain =>
        \A d1 \in SnapshotDays : \A d2 \in SnapshotDays :
            (d1 < d2 /\ d2 - d1 <= history_last) =>
                ToSet(hist.savedIds[d1]) \cap ToSet(hist.savedIds[d2]) = {}

====
